---- MODULE Spec2Model ----
(***************************************************************************)
(* Model of the streaming LZ77 factorizer of the `slide` crate:            *)
(*   - SearchBuffer (src/src/search_buffer.rs): the N-gram indexed window  *)
(*     and its longest-match search;                                       *)
(*   - SearchBuffer::to_items (src/src/lz/mod.rs): the factorizer;         *)
(*   - Slide::from_items (src/src/lz/mod.rs): the reconstructor.           *)
(* Rust indices are 0-based; sequences here are 1-based, so the element    *)
(* at Rust index i of a sequence s is s[i + 1].                            *)
(***************************************************************************)
EXTENDS Integers, Sequences, FiniteSets, TLC

\* ------------------------------------------------------------------ bounds
\* longest input sequence fed to to_items
MaxInput == 6
\* largest N-gram size (the const generic N of SearchBuffer<T, N>)
MaxN == 2
\* largest Config::max_buffer_len
MaxBufferLen == 3
\* greatest absolute index a SearchBuffer reaches in the API specification
MaxEnd == 6
\* longest probe handed to find_longest_match in the API specification
MaxProbe == 4

\* longest sequence handed to extend or extend_slide in one call of the API
\* specification
MaxChunk == 2

\* the symbol type T: two distinguishable values are enough to make matches,
\* mismatches and runs
Symbols == {1, 2}

VARIABLES
    N,              \* const generic N of the SearchBuffer
    config,         \* the Config handed to to_items and from_items
    input,          \* the whole input sequence s (never changes)
    iter,           \* to_items: the symbols not yet pulled from the input iterator
    match_window,   \* to_items: the lookahead Slide
    raw_len,        \* to_items: pending literal run length
    back_ref,       \* to_items: pending back reference (range, end)
    search_buffer,  \* the SearchBuffer (values, offsets, heads, offset)
    items,          \* the items returned by the pulls so far, in pull order
    windows,        \* to_items: per match found, in order, the search buffer it was found in
    pc,             \* to_items: position in the closure ("top", "scan", "done", "panic")
    buffer,         \* from_items: the reconstructor Slide
    decoded,        \* from_items: the symbols yielded so far
    consumed,       \* from_items: number of items processed
    dpc,            \* from_items: "run" or "panic"
    probe,          \* API specification: the last probe of find_longest_match
    found,          \* API specification: the result of that find_longest_match
    debug_assertions, \* the build: TRUE when debug_assert! is compiled in
    slide_state,    \* a Slide<T>: data (slots), start, end
    fresh,          \* Slide specification: number of elements handed to the Slide so far
    released,       \* Slide specification: per element, how often the Slide gave it up
                    \* (returned it to the caller or dropped it)
    call,           \* the last recorded call: operation, arguments, outcome
    codec           \* Item codec: fields on the wire, items sent and received

vars == <<N, config, input, iter, match_window, raw_len, back_ref, search_buffer,
          items, windows, pc, buffer, decoded, consumed, dpc, probe, found,
          debug_assertions, slide_state, fresh, released, call, codec>>

\* ----------------------------------------------------------------- helpers
Min(a, b) == IF a < b THEN a ELSE b
Max(a, b) == IF a > b THEN a ELSE b
\* usize::saturating_sub
saturating_sub(a, b) == IF a > b THEN a - b ELSE 0
\* all sequences over S of length at most k
SeqsUpTo(S, k) == UNION {[1..j -> S] : j \in 0..k}
\* Rust slice s[a..b] (0-based, half open)
Slice(s, a, b) == SubSeq(s, a + 1, b)

\* Option<Range<usize>> as the outcome of a call: the value returned, or
\* Panicked when the call panics instead of returning
None == [some |-> FALSE, panic |-> FALSE, start |-> 0, end |-> 0]
Some(s, e) == [some |-> TRUE, panic |-> FALSE, start |-> s, end |-> e]
Panicked == [some |-> FALSE, panic |-> TRUE, start |-> 0, end |-> 0]
\* Range::len
RangeLen(r) == saturating_sub(r.end, r.start)

\* ------------------------------------------------------------ SearchBuffer
EmptyHeads == [g \in {} |-> 0]

\* SearchBuffer::with_hasher
with_hasher ==
    [values |-> <<>>, offsets |-> <<>>, heads |-> EmptyHeads, offset |-> 1,
     panicked |-> FALSE]

len(sb) == Len(sb.values)
start(sb) == sb.offset - 1
end(sb) == start(sb) + len(sb)

\* HashMap::insert(window, v) on heads
HeadsInsert(heads, window, v) ==
    [g \in (DOMAIN heads) \cup {window} |-> IF g = window THEN v ELSE heads[g]]

\* mutant of extend_offsets: the previous head is not chained
RECURSIVE extend_offsets_unchained(_)
extend_offsets_unchained(sb) ==
    LET base == Len(sb.offsets)
    IN  IF base < Len(sb.values) /\ base + N <= Len(sb.values)
        THEN extend_offsets_unchained([sb EXCEPT
                 !.heads = HeadsInsert(@, Slice(sb.values, base, base + N), base + sb.offset),
                 !.offsets = Append(@, 0)])
        ELSE sb

\* mutant of extend_offsets: a position is chained to itself
RECURSIVE extend_offsets_self_chained(_)
extend_offsets_self_chained(sb) ==
    LET base == Len(sb.offsets)
    IN  IF base < Len(sb.values) /\ base + N <= Len(sb.values)
        THEN extend_offsets_self_chained([sb EXCEPT
                 !.heads = HeadsInsert(@, Slice(sb.values, base, base + N), base + sb.offset),
                 !.offsets = Append(@, base + sb.offset)])
        ELSE sb

\* SearchBuffer::extend_offsets: index every complete N-gram not yet indexed
RECURSIVE extend_offsets(_)
extend_offsets(sb) ==
    LET base == Len(sb.offsets)
    IN  IF base < Len(sb.values) /\ base + N <= Len(sb.values)
        THEN LET window == Slice(sb.values, base, base + N)
                 old == IF window \in DOMAIN sb.heads THEN sb.heads[window] ELSE 0
             IN  extend_offsets([sb EXCEPT
                     !.heads = HeadsInsert(@, window, base + sb.offset),
                     !.offsets = Append(@, old)])
        ELSE sb

\* SearchBuffer::push
push(sb, val) == extend_offsets([sb EXCEPT !.values = Append(@, val)])

\* impl Extend for SearchBuffer
extend(sb, seq) == extend_offsets([sb EXCEPT !.values = @ \o seq])

\* mutant of pop: the absolute offset is not advanced
pop_keeps_offset(sb) ==
    IF sb.values = <<>> THEN sb
    ELSE IF sb.offsets = <<>>
         THEN [sb EXCEPT !.values = Tail(@), !.panicked = TRUE]
         ELSE [sb EXCEPT !.values = Tail(@), !.offsets = Tail(@)]

\* SearchBuffer::pop: values.pop(), then offsets.pop().unwrap() and offset += 1.
\* The unwrap panics when values held a symbol but offsets is empty.
pop(sb) ==
    IF sb.values = <<>> THEN sb
    ELSE IF sb.offsets = <<>>
         THEN [sb EXCEPT !.values = Tail(@), !.panicked = TRUE]
         ELSE [sb EXCEPT !.values = Tail(@), !.offsets = Tail(@), !.offset = @ + 1]

\* SearchBuffer::step
step(sb, val) ==
    IF sb.values # <<>>
    THEN LET p == pop(sb) IN IF p.panicked THEN p ELSE push(p, val)
    ELSE sb

\* mutant of drain: the absolute offset is not advanced
drain_keeps_offset(sb, n) ==
    IF n > Len(sb.values) THEN [sb EXCEPT !.panicked = TRUE]
    ELSE [sb EXCEPT
            !.values = Slice(@, n, Len(@)),
            !.offsets = Slice(@, Min(n, Len(@)), Len(@))]

\* mutant of drain: offsets is not drained
drain_values_only(sb, n) ==
    IF n > Len(sb.values) THEN [sb EXCEPT !.panicked = TRUE]
    ELSE [sb EXCEPT !.values = Slice(@, n, Len(@)), !.offset = @ + n]

\* SearchBuffer::drain(n): Slide::drain(0..n) asserts n <= len
drain(sb, n) ==
    IF n > Len(sb.values) THEN [sb EXCEPT !.panicked = TRUE]
    ELSE [sb EXCEPT
            !.values = Slice(@, n, Len(@)),
            !.offsets = Slice(@, Min(n, Len(@)), Len(@)),
            !.offset = @ + n]

\* SearchBuffer::slide, consumed to the end
RECURSIVE slide(_, _)
slide(sb, seq) ==
    IF seq = <<>> \/ sb.panicked THEN sb
    ELSE slide(step(sb, Head(seq)), Tail(seq))

\* mutant of push_step: the symbol is pushed whatever the length
push_step_never_steps(sb, val, max_len) == push(sb, val)

\* SearchBuffer::push_step
push_step(sb, val, max_len) ==
    IF len(sb) < max_len THEN push(sb, val) ELSE step(sb, val)

\* mutant of extend_slide: the symbols are appended, none is retired
extend_slide_never_slides(sb, seq, max_len) == extend(sb, seq)

\* SearchBuffer::extend_slide, the returned iterator consumed to the end
extend_slide(sb, seq, max_len) ==
    LET k == IF len(sb) < max_len THEN Min(max_len - len(sb), Len(seq)) ELSE 0
        sb1 == IF len(sb) < max_len THEN extend(sb, Slice(seq, 0, k)) ELSE sb
    IN  slide(sb1, Slice(seq, k, Len(seq)))

\* mutant of the copy loop: one clamped copy, no further chunk
extend_from_within_once(sb, a, b) ==
    IF ~(a < b) THEN sb
    ELSE extend(sb, Slice(sb.values, a + 1 - sb.offset, Min(b, end(sb)) + 1 - sb.offset))

\* SearchBuffer::extend_from_within(a..b)
RECURSIVE extend_from_within_loop(_, _, _)
extend_from_within_loop(sb, a, b) ==
    IF ~(a < b) THEN sb
    ELSE LET e == Min(b, end(sb))
             chunk == Slice(sb.values, a + 1 - sb.offset, e + 1 - sb.offset)
         IN  extend_from_within_loop(extend(sb, chunk), a, b - (e - a))

extend_from_within(sb, a, b) ==
    IF ~(start(sb) <= a /\ a < end(sb)) THEN [sb EXCEPT !.panicked = TRUE]
    ELSE extend_from_within_loop(sb, a, b)

\* mutant of check: past the window end the probe is read at index, not at
\* index - values.len()
check_no_rebase(sb, arr, index, arr_index) ==
    /\ arr_index < Len(arr)
    /\ IF index < Len(sb.values)
       THEN sb.values[index + 1] = arr[arr_index + 1]
       ELSE index < Len(arr) /\ arr[index + 1] = arr[arr_index + 1]

\* get_match's closure `check`: [values[..], arr[..]][index] == arr[arr_index]
check(sb, arr, index, arr_index) ==
    LET both == sb.values \o arr
    IN  /\ index < Len(both)
        /\ arr_index < Len(arr)
        /\ both[index + 1] = arr[arr_index + 1]

\* get_match's closure `count`: how long [values[..], arr[..]][index..] == arr[arr_base..]
RECURSIVE count(_, _, _, _)
count(sb, arr, index, arr_base) ==
    IF check(sb, arr, index, arr_base)
    THEN 1 + count(sb, arr, index + 1, arr_base + 1)
    ELSE 0

\* SearchBuffer::get_match::<SKIP_N>
get_match(SKIP_N, sb, base, arr, min_len) ==
    IF min_len >= Len(arr) \/ N >= Len(arr) THEN None
    ELSE LET skip == IF SKIP_N THEN N ELSE 0
             l == count(sb, arr, base + skip, skip) + skip
         IN  \* debug_assert_eq!(count((base..base + N, 0)), N)
             IF SKIP_N /\ count(sb, arr, base, 0) < N THEN Panicked
             ELSE IF check(sb, arr, base + min_len, min_len) /\ l > min_len
             THEN Some(base + start(sb), base + start(sb) + l)
             ELSE None

\* the seed of find_longest_match_by: bases len-N..len, max_by_key(Range::len)
\* (max_by_key keeps the last of several equally long candidates)
RECURSIVE seed_max(_, _, _, _)
seed_max(sb, arr, base, max) ==
    IF base >= len(sb) THEN max
    ELSE LET c == get_match(FALSE, sb, base, arr, N)
             m == IF c.some /\ (~max.some \/ RangeLen(c) >= RangeLen(max)) THEN c ELSE max
         IN  seed_max(sb, arr, base + 1, m)

\* mutant of the chain walk: a stale chain pointer is not the end of the walk,
\* the retired position it names is reported as a match of N symbols
RECURSIVE chain_walk_follows_stale(_, _, _, _)
chain_walk_follows_stale(sb, arr, next, max) ==
    LET max_len == IF max.some THEN RangeLen(max) ELSE 0
    IN  IF ~(max_len < Len(arr)) THEN max
        ELSE LET candidate == get_match(TRUE, sb, next, arr, max_len)
                 max2 == IF candidate.some THEN candidate ELSE max
                 ptr == sb.offsets[next + 1]
             IN  IF candidate.panic \/ ~(next < Len(sb.offsets)) THEN Panicked
                 ELSE IF ptr < sb.offset
                      THEN IF ptr > 0 /\ RangeLen(max2) <= N
                           THEN Some(ptr - 1, ptr - 1 + N)
                           ELSE max2
                 ELSE chain_walk_follows_stale(sb, arr, ptr - sb.offset, max2)

\* the chain walk of find_longest_match_by with the predicate Ok(false);
\* self.offsets[next] panics when next is no index of offsets
RECURSIVE chain_walk(_, _, _, _)
chain_walk(sb, arr, next, max) ==
    LET max_len == IF max.some THEN RangeLen(max) ELSE 0
    IN  IF ~(max_len < Len(arr)) THEN max
        ELSE LET candidate == get_match(TRUE, sb, next, arr, max_len)
                 max2 == IF candidate.some THEN candidate ELSE max
             IN  IF candidate.panic \/ ~(next < Len(sb.offsets)) THEN Panicked
                 ELSE IF sb.offsets[next + 1] < sb.offset THEN max2
                 ELSE chain_walk(sb, arr, sb.offsets[next + 1] - sb.offset, max2)

\* the positions (indices into offsets) the chain walk of chain_walk visits,
\* in order
RECURSIVE chain_visits(_, _, _, _)
chain_visits(sb, arr, next, max) ==
    LET max_len == IF max.some THEN RangeLen(max) ELSE 0
    IN  IF ~(max_len < Len(arr)) THEN <<>>
        ELSE LET candidate == get_match(TRUE, sb, next, arr, max_len)
                 max2 == IF candidate.some THEN candidate ELSE max
             IN  IF candidate.panic \/ ~(next < Len(sb.offsets)) THEN <<next>>
                 ELSE IF sb.offsets[next + 1] < sb.offset THEN <<next>>
                 ELSE <<next>> \o chain_visits(sb, arr, sb.offsets[next + 1] - sb.offset, max2)

\* the positions the chain walk of find_longest_match_by visits for arr
visits(sb, arr) ==
    IF N >= Len(arr) THEN <<>>
    ELSE LET max == seed_max(sb, arr, saturating_sub(len(sb), N), None)
             head == Slice(arr, 0, N)
         IN  IF head \in DOMAIN sb.heads /\ sb.heads[head] >= sb.offset
             THEN chain_visits(sb, arr, sb.heads[head] - sb.offset, max)
             ELSE <<>>

\* SearchBuffer::find_longest_match_by with the predicate Ok(false)
find_longest_match_by(sb, arr) ==
    IF N >= Len(arr) THEN None
    ELSE LET max == seed_max(sb, arr, saturating_sub(len(sb), N), None)
             head == Slice(arr, 0, N)
         IN  IF head \in DOMAIN sb.heads /\ sb.heads[head] >= sb.offset
             THEN chain_walk(sb, arr, sb.heads[head] - sb.offset, max)
             ELSE max

\* SearchBuffer::find_longest_match, with the closing
\* debug_assert!(max.len() <= arr.len()) of find_longest_match_by
find_longest_match(sb, arr) ==
    LET max == find_longest_match_by(sb, arr)
    IN  IF max.some /\ RangeLen(max) > Len(arr) THEN Panicked ELSE max

\* ------------------------------------------------------------------- Slide
\* Slide::extend_from_within(a..b) on the live elements of a Slide: repeatedly
\* append the subrange a..min(b, len), until b is consumed
RECURSIVE slide_extend_from_within(_, _, _)
slide_extend_from_within(s, a, b) ==
    IF ~(a < b) THEN s
    ELSE LET e == Min(b, Len(s))
         IN  slide_extend_from_within(s \o Slice(s, a, e), a, b - (e - a))

\* -------------------------------------------------------------------- Item
\* Item::Raw(raw); back and len are what Item::back() and Item::len() return
Raw(raw) == [kind |-> "Raw", raw |-> raw, back |-> 0, len |-> Len(raw)]
\* mutant of Ref: the distance is measured from the end of the matched range
Ref_back_from_range_end(index, e) ==
    [kind |-> "Ref", raw |-> <<>>, back |-> e - index.end, len |-> RangeLen(index)]

\* Item::from((index, end)): back = end - index.start, len = index.len()
Ref(index, e) == [kind |-> "Ref", raw |-> <<>>, back |-> e - index.start, len |-> RangeLen(index)]

NoBackRef == [some |-> FALSE, index |-> None, end |-> 0]

\* ------------------------------------------------------------------ Config
Configs ==
    [max_buffer_len : 0..MaxBufferLen,
     match_lengths : [start : 0..(MaxN + 1), end : 0..MaxInput]]

\* Config::default() scaled to the model: no limit bites
DefaultConfig ==
    [max_buffer_len |-> MaxBufferLen, match_lengths |-> [start |-> 1, end |-> MaxInput]]

\* ---------------------------------------------------------------- to_items
\* the slice match_window[raw_len..] the scan works on
data == Slice(match_window, raw_len, Len(match_window))

FactorizerVars == <<iter, match_window, raw_len, back_ref, search_buffer, items, windows, pc>>
ReconstructorVars == <<buffer, decoded, consumed, dpc>>
QueryVars == <<probe, found>>
Params == <<N, config, input, debug_assertions>>
SlideVars == <<slide_state, fresh, released>>

\* mutant of raw_pending: an empty literal run counts as pending
raw_pending_when_empty == raw_len >= 0

\* the first arm at the top of the loop: a literal run is pending
raw_pending == raw_len > 0

\* mutant of ref_pending: the back reference is returned before the literal
\* run found ahead of it
ref_pending_first == back_ref.some

\* the second arm at the top of the loop: no literal run, a back reference
\* is pending
ref_pending == ~raw_pending /\ back_ref.some

\* a pull finds a pending literal run: drain it and return it as Raw
EmitRaw ==
    /\ pc = "top"
    /\ raw_pending
    /\ IF raw_len > Len(match_window)
       THEN pc' = "panic" /\ UNCHANGED <<match_window, raw_len, items>>
       ELSE /\ items' = Append(items, Raw(Slice(match_window, 0, raw_len)))
            /\ match_window' = Slice(match_window, raw_len, Len(match_window))
            /\ raw_len' = 0
            /\ pc' = "top"
    /\ UNCHANGED <<iter, back_ref, search_buffer, windows>>
    /\ UNCHANGED <<ReconstructorVars, QueryVars, Params, SlideVars, call, codec>>

\* a pull finds a pending back reference: drain its symbols and return the Ref
EmitRef ==
    /\ pc = "top"
    /\ ref_pending
    /\ IF RangeLen(back_ref.index) > Len(match_window) \/ back_ref.end <= back_ref.index.start
       THEN pc' = "panic" /\ UNCHANGED <<match_window, back_ref, items>>
       ELSE /\ items' = Append(items, Ref(back_ref.index, back_ref.end))
            /\ match_window' = Slice(match_window, RangeLen(back_ref.index), Len(match_window))
            /\ back_ref' = NoBackRef
            /\ pc' = "top"
    /\ UNCHANGED <<iter, raw_len, search_buffer, windows>>
    /\ UNCHANGED <<ReconstructorVars, QueryVars, Params, SlideVars, call, codec>>

\* nothing pending: refill the lookahead; an empty lookahead ends the stream
Refill ==
    /\ pc = "top"
    /\ ~raw_pending
    /\ ~ref_pending
    /\ LET k == Min(Len(iter),
                    saturating_sub(config.match_lengths.end, Len(match_window) + 1))
       IN  /\ match_window' = match_window \o Slice(iter, 0, k)
           /\ iter' = Slice(iter, k, Len(iter))
    /\ pc' = IF match_window' = <<>> THEN "done" ELSE "scan"
    /\ UNCHANGED <<raw_len, back_ref, search_buffer, items, windows>>
    /\ UNCHANGED <<ReconstructorVars, QueryVars, Params, SlideVars, call, codec>>

\* mutant of ScanExit: the scan is also left in the middle of a literal run
ScanExit_mid_run ==
    /\ pc = "scan"
    /\ data = <<>> \/ raw_len > 0
    /\ pc' = "top"
    /\ UNCHANGED <<iter, match_window, raw_len, back_ref, search_buffer, items, windows>>
    /\ UNCHANGED <<ReconstructorVars, QueryVars, Params, SlideVars, call, codec>>

\* the while-let fails: the lookahead past raw_len is empty
ScanExit ==
    /\ pc = "scan"
    /\ data = <<>>
    /\ pc' = "top"
    /\ UNCHANGED <<iter, match_window, raw_len, back_ref, search_buffer, items, windows>>
    /\ UNCHANGED <<ReconstructorVars, QueryVars, Params, SlideVars, call, codec>>

\* mutant of accepted_match: match_lengths.start is not checked
accepted_match_any_length == find_longest_match(search_buffer, data)

\* the match the scan accepts at the current position, or None
accepted_match ==
    LET range == find_longest_match(search_buffer, data)
    IN  IF range.some /\ RangeLen(range) >= config.match_lengths.start THEN range ELSE None

\* the search buffer a match was found in: its window, the absolute index of
\* the window's first symbol, and the range matched
MatchedIn(sb, range) == [values |-> sb.values, start |-> start(sb), index |-> range]

\* one iteration of the scan that finds a valid match
ScanMatch ==
    /\ pc = "scan"
    /\ data # <<>>
    /\ Len(data) < config.match_lengths.end
    /\ accepted_match.some
    /\ back_ref' = [some |-> TRUE, index |-> accepted_match, end |-> end(search_buffer)]
    /\ windows' = Append(windows, MatchedIn(search_buffer, accepted_match))
    /\ search_buffer' = extend_slide(search_buffer,
                                     Slice(data, 0, RangeLen(accepted_match)),
                                     config.max_buffer_len)
    /\ pc' = IF search_buffer'.panicked THEN "panic" ELSE "top"
    /\ UNCHANGED <<iter, match_window, raw_len, items>>
    /\ UNCHANGED <<ReconstructorVars, QueryVars, Params, SlideVars, call, codec>>

\* one iteration of the scan that finds no valid match: the head symbol
\* becomes a literal (the iteration panics when its debug_assert on
\* data.len() fails, or when push_step panics)
ScanLiteral ==
    /\ pc = "scan"
    /\ data # <<>>
    /\ ~(Len(data) < config.match_lengths.end) \/ ~accepted_match.some
    /\ IF ~(Len(data) < config.match_lengths.end)
       THEN pc' = "panic" /\ UNCHANGED <<iter, match_window, raw_len, search_buffer>>
       ELSE /\ search_buffer' = push_step(search_buffer, Head(data), config.max_buffer_len)
            /\ IF search_buffer'.panicked
               THEN pc' = "panic" /\ UNCHANGED <<iter, match_window, raw_len>>
               ELSE /\ IF iter # <<>>
                       THEN /\ match_window' = Append(match_window, Head(iter))
                            /\ iter' = Tail(iter)
                       ELSE UNCHANGED <<iter, match_window>>
                    /\ raw_len' = raw_len + 1
                    /\ pc' = "scan"
    /\ UNCHANGED <<back_ref, items, windows>>
    /\ UNCHANGED <<ReconstructorVars, QueryVars, Params, SlideVars, call, codec>>

\* -------------------------------------------------------------- from_items
\* the buffer after the item is applied, before the surplus head is drained
apply_item(buf, item) ==
    IF item.kind = "Raw" THEN buf \o item.raw
    ELSE LET base == Len(buf) - item.back
         IN  slide_extend_from_within(buf, base, base + item.len)

\* the Ref arm goes through without a panic. With debug assertions the three
\* debug_assert! must hold. Without them only back <= buffer.len() is needed:
\* otherwise buffer.len() - back overflows, which panics or wraps to an index
\* far outside the window that extend_from_within refuses.
item_ok(buf, item, cfg) ==
    item.kind = "Ref" =>
        /\ item.back <= Len(buf)
        /\ debug_assertions =>
               /\ item.len >= cfg.match_lengths.start
               /\ item.len < cfg.match_lengths.end
        /\ Len(buf) - item.back < Len(buf)

\* mutant of drain_over: the surplus head is kept
drain_over_nothing(buf, cfg) == buf

\* drain(0..over): drop the surplus head
drain_over(buf, cfg) ==
    Slice(buf, saturating_sub(Len(buf), cfg.max_buffer_len), Len(buf))

\* the flat_map closure of from_items on the next item
Decode ==
    /\ dpc = "run"
    /\ consumed < Len(items)
    /\ LET item == items[consumed + 1]
       IN  IF ~item_ok(buffer, item, config)
           THEN dpc' = "panic" /\ UNCHANGED <<buffer, decoded, consumed>>
           ELSE LET b == apply_item(buffer, item)
                IN  /\ decoded' = decoded \o Slice(b, Len(b) - item.len, Len(b))
                    /\ buffer' = drain_over(b, config)
                    /\ consumed' = consumed + 1
                    /\ dpc' = "run"
    /\ UNCHANGED <<FactorizerVars, QueryVars, Params, SlideVars, call, codec>>

\* ------------------------------------------------------- initial values
\* MaybeUninit::uninit(): a slot that holds no element (elements are >= 1)
Uninit == 0

\* Slide::default
EmptySlide == [data |-> <<>>, start |-> 0, end |-> 0]

\* no call recorded yet
NoCall == [op |-> "none", a |-> 0, b |-> 0, out |-> <<>>, panic |-> FALSE]

\* nothing serialized yet
NoCodec == [wire |-> <<>>, sent |-> 0, received |-> <<>>, error |-> FALSE]

\* ---------------------------------------------------------- specifications
\* to_items and from_items chained as in main: the assertions of both never
\* fail on this path, so the build with debug assertions stands for both builds
Init ==
    /\ debug_assertions = TRUE
    /\ slide_state = EmptySlide
    /\ fresh = 0
    /\ released = <<>>
    /\ call = NoCall
    /\ codec = NoCodec
    /\ N \in 1..MaxN
    /\ config \in Configs
    /\ input \in SeqsUpTo(Symbols, MaxInput)
    /\ iter = input
    /\ match_window = <<>>
    /\ raw_len = 0
    /\ back_ref = NoBackRef
    /\ windows = <<>>
    /\ search_buffer = with_hasher
    /\ items = <<>>
    /\ pc = "top"
    /\ buffer = <<>>
    /\ decoded = <<>>
    /\ consumed = 0
    /\ dpc = "run"
    /\ probe = <<>>
    /\ found = None

Next ==
    \/ EmitRaw
    \/ EmitRef
    \/ Refill
    \/ ScanExit
    \/ ScanMatch
    \/ ScanLiteral
    \/ Decode

\* to_items on a fresh SearchBuffer feeding from_items on a fresh Slide
Spec == Init /\ [][Next]_vars

\* ------------------------------------------------ SearchBuffer API
\* the public operations of SearchBuffer applied in any order to a fresh
\* buffer, and find_longest_match asked for any probe
ApiFrame == UNCHANGED <<iter, match_window, raw_len, back_ref, items, windows, pc,
                        ReconstructorVars, Params, SlideVars, call, codec>>
\* the buffer is usable and no query result is outstanding. find_longest_match
\* takes &self and leaves the buffer as it is, so the operations that follow a
\* query are those that could have been applied instead of it: behaviours are
\* explored up to their first query.
Idle == ~search_buffer.panicked /\ probe = <<>> /\ found = None /\ call = NoCall

Push ==
    /\ Idle /\ end(search_buffer) < MaxEnd
    /\ \E val \in Symbols : search_buffer' = push(search_buffer, val)
    /\ UNCHANGED QueryVars /\ ApiFrame

Pop ==
    /\ Idle
    /\ search_buffer' = pop(search_buffer)
    /\ UNCHANGED QueryVars /\ ApiFrame

Step ==
    /\ Idle /\ end(search_buffer) < MaxEnd
    /\ \E val \in Symbols : search_buffer' = step(search_buffer, val)
    /\ UNCHANGED QueryVars /\ ApiFrame

Drain ==
    /\ Idle
    /\ \E n \in 0..(len(search_buffer) + 1) : search_buffer' = drain(search_buffer, n)
    /\ UNCHANGED QueryVars /\ ApiFrame

Extend ==
    /\ Idle
    /\ \E seq \in SeqsUpTo(Symbols, Min(MaxChunk, MaxEnd - end(search_buffer))) :
           search_buffer' = extend(search_buffer, seq)
    /\ UNCHANGED QueryVars /\ ApiFrame

ExtendFromWithin ==
    /\ Idle
    /\ \E a \in 0..end(search_buffer), b \in 0..(MaxEnd + 1) :
           /\ b > a => end(search_buffer) + (b - a) <= MaxEnd
           /\ search_buffer' = extend_from_within(search_buffer, a, b)
    /\ UNCHANGED QueryVars /\ ApiFrame

PushStep ==
    /\ Idle /\ end(search_buffer) < MaxEnd
    /\ \E val \in Symbols, max_len \in 0..MaxBufferLen :
           search_buffer' = push_step(search_buffer, val, max_len)
    /\ UNCHANGED QueryVars /\ ApiFrame

ExtendSlide ==
    /\ Idle
    /\ \E seq \in SeqsUpTo(Symbols, Min(MaxChunk, MaxEnd - end(search_buffer))),
          max_len \in 0..MaxBufferLen :
           search_buffer' = extend_slide(search_buffer, seq, max_len)
    /\ UNCHANGED QueryVars /\ ApiFrame

FindLongestMatch ==
    /\ Idle
    /\ \E arr \in SeqsUpTo(Symbols, MaxProbe) :
           /\ probe' = arr
           /\ found' = find_longest_match(search_buffer, arr)
    /\ UNCHANGED search_buffer /\ ApiFrame

InitApi ==
    /\ debug_assertions = TRUE
    /\ slide_state = EmptySlide
    /\ fresh = 0
    /\ released = <<>>
    /\ call = NoCall
    /\ codec = NoCodec
    /\ N \in 1..MaxN
    /\ config = DefaultConfig
    /\ input = <<>>
    /\ iter = <<>>
    /\ match_window = <<>>
    /\ raw_len = 0
    /\ back_ref = NoBackRef
    /\ windows = <<>>
    /\ search_buffer = with_hasher
    /\ items = <<>>
    /\ pc = "top"
    /\ buffer = <<>>
    /\ decoded = <<>>
    /\ consumed = 0
    /\ dpc = "run"
    /\ probe = <<>>
    /\ found = None

NextApi ==
    \/ Push
    \/ Pop
    \/ Step
    \/ Drain
    \/ Extend
    \/ ExtendFromWithin
    \/ PushStep
    \/ ExtendSlide
    \/ FindLongestMatch

SpecApi == InitApi /\ [][NextApi]_vars

\* ------------------------------------------------ claims: find_longest_match
\* the concatenation window ++ probe the search compares against
WindowAndProbe == search_buffer.values \o probe

\* length of the common prefix of (window ++ probe) read from window position
\* rel (0-based) and the probe
CommonPrefix(rel) ==
    LET agree(k) == \A i \in 0..(k - 1) :
                        /\ rel + i < Len(WindowAndProbe)
                        /\ WindowAndProbe[rel + i + 1] = probe[i + 1]
    IN  CHOOSE k \in 0..Len(probe) :
            agree(k) /\ \A j \in (k + 1)..Len(probe) : ~agree(j)

\* the longest common prefix over all live window positions (0 for an empty window)
BestPrefix ==
    LET S == {CommonPrefix(rel) : rel \in 0..(len(search_buffer) - 1)}
    IN  IF S = {} THEN 0 ELSE CHOOSE k \in S : \A j \in S : j <= k

\* C8: soundness of find_longest_match. A returned range s..s+L has
\* N <= L <= probe.len(), starts inside the window, and the L symbols of
\* window ++ probe read from s equal the first L symbols of the probe.
C8_Soundness ==
    found.some =>
        LET L == found.end - found.start
            rel == found.start - start(search_buffer)
        IN  /\ N <= L
            /\ L <= Len(probe)
            /\ 0 <= rel
            /\ rel < len(search_buffer)
            /\ \A i \in 0..(L - 1) :
                   /\ rel + i < Len(WindowAndProbe)
                   /\ WindowAndProbe[rel + i + 1] = probe[i + 1]

\* C8 witness: a match found after symbols were retired that runs past the
\* end of the window into the probe itself
C8_Witness ==
    /\ found.some
    /\ start(search_buffer) > 0
    /\ found.end > end(search_buffer)
    /\ found.start + N <= end(search_buffer)

\* C9: maximality of find_longest_match. For a probe longer than N, when some
\* live window position has a common prefix of length >= N the result is a
\* range of exactly the greatest such length, and None is returned only when
\* no position has one.
C9_Maximality ==
    (probe # <<>> /\ Len(probe) > N /\ ~found.panic) =>
        /\ BestPrefix >= N => (found.some /\ found.end - found.start = BestPrefix)
        /\ ~found.some => BestPrefix < N

\* C10: find_longest_match returns None for a probe of at most N symbols and
\* for an empty search buffer, whatever the heads table holds.
C10_NoneOnShortProbeOrEmptyBuffer ==
    (Len(probe) <= N \/ len(search_buffer) = 0) => (~found.some /\ ~found.panic)

\* C10 witness: a query on an emptied buffer whose heads table still holds the
\* probe's leading N-gram
C10_Witness ==
    /\ len(search_buffer) = 0
    /\ Len(probe) > N
    /\ Slice(probe, 0, N) \in DOMAIN search_buffer.heads
    /\ found = None

\* C10 witness of the other case: a short probe against a window that holds it
C10_WitnessShortProbe ==
    /\ Len(probe) = N
    /\ len(search_buffer) >= N
    /\ Slice(search_buffer.values, 0, N) = probe
    /\ found = None

\* ------------------------------------------- claims: to_items / from_items
\* sum of Item::len() over a sequence of items
RECURSIVE TotalLen(_)
TotalLen(its) == IF its = <<>> THEN 0 ELSE Head(its).len + TotalLen(Tail(its))

\* the last k symbols of s
Suffix(s, k) == Slice(s, Len(s) - k, Len(s))

\* number of input symbols the factorizer has fed to the search buffer
Fed ==
    Len(input) - Len(iter) - Len(match_window) + raw_len
        + (IF back_ref.some THEN RangeLen(back_ref.index) ELSE 0)

\* the configurations that are not a configuration error: positive
\* match_lengths.start and match_lengths.end, start < end, positive
\* max_buffer_len (N >= 1 holds of every initial state)
ValidConfig ==
    /\ config.match_lengths.start >= 1
    /\ config.match_lengths.end >= 1
    /\ config.match_lengths.start < config.match_lengths.end
    /\ config.max_buffer_len >= 1

\* C1: round trip. For a valid config with N <= match_lengths.start, to_items
\* on a fresh SearchBuffer and from_items on a fresh Slide do not panic, and
\* once the stream has ended and every item is replayed the symbols yielded
\* are exactly the input. (Without ValidConfig the statement fails as well:
\* match_lengths.end <= 1 ends the stream before any item.)
C1_RoundTrip ==
    (ValidConfig /\ N <= config.match_lengths.start) =>
        /\ pc # "panic"
        /\ dpc # "panic"
        /\ (pc = "done" /\ consumed = Len(items)) => decoded = input

\* C2: every Ref emitted by to_items has match_lengths.start <= len <
\* match_lengths.end and 1 <= back <= max_buffer_len.
C2_RefBounds ==
    \A i \in 1..Len(items) :
        items[i].kind = "Ref" =>
            /\ config.match_lengths.start <= items[i].len
            /\ items[i].len < config.match_lengths.end
            /\ 1 <= items[i].back
            /\ items[i].back <= config.max_buffer_len

\* C2 witness: a Ref at the far end of a full window that has slid, whose
\* length is the least the config accepts and more than N
C2_Witness ==
    \E i \in 1..Len(items) :
        /\ items[i].kind = "Ref"
        /\ items[i].back = config.max_buffer_len
        /\ items[i].len = config.match_lengths.start
        /\ items[i].len > N
        /\ start(search_buffer) > 0

\* C3: every Raw emitted by to_items holds at least one symbol.
C3_NoEmptyRaw ==
    \A i \in 1..Len(items) : items[i].kind = "Raw" => Len(items[i].raw) >= 1

\* C3 witness: the stream has ended and it holds a Raw after a Ref
C3_Witness ==
    /\ pc = "done"
    /\ \E i \in 2..Len(items) : items[i].kind = "Raw" /\ items[i - 1].kind = "Ref"

\* C4: items are returned in the order they consume the input. Each pull
\* returns one item, which covers the input positions right after those of the
\* items before it (a Raw holds those symbols, a Ref copies them from back
\* positions earlier), and when a scan left both a literal run and a match
\* pending the pull returns the Raw and keeps the Ref for the next pull.
C4_EmissionOrder ==
    [][items' # items =>
        LET pos == TotalLen(items)
            it == items'[Len(items')]
        IN  /\ items' = Append(items, it)
            /\ pos + it.len <= Len(input)
            /\ it.kind = "Raw" => it.raw = Slice(input, pos, pos + it.len)
            /\ it.kind = "Ref" =>
                   /\ it.back <= pos
                   /\ \A i \in 1..it.len : input[pos + i] = input[pos + i - it.back]
            /\ (raw_len > 0 /\ back_ref.some) =>
                   (it.kind = "Raw" /\ back_ref' = back_ref)]_vars

\* C4 witness: a Raw and the Ref found by the same scan, returned in that order
C4_Witness ==
    \E i \in 1..(Len(items) - 1) :
        /\ items[i].kind = "Raw"
        /\ items[i + 1].kind = "Ref"
        /\ items[i + 1].back < items[i + 1].len

\* C5: for a valid config to_items reaches end-of-stream (it does not stop in
\* a panic), and when it returns end-of-stream no literal run and no back
\* reference is pending and the lengths of the items returned sum to the
\* input length. (Without ValidConfig the statement fails as well:
\* match_lengths.end <= 1 ends the stream with the input unread.)
C5_Termination ==
    ValidConfig =>
        /\ pc # "panic"
        /\ pc = "done" =>
               /\ raw_len = 0
               /\ ~back_ref.some
               /\ TotalLen(items) = Len(input)

\* C6: the search buffer of to_items never holds more than max_buffer_len
\* symbols; after every completed push_step and extend_slide it holds exactly
\* the most recent min(max_buffer_len, fed) symbols fed to it, so one oldest
\* symbol has left for every symbol appended to a full window.
C6_BoundedSearchBuffer ==
    /\ len(search_buffer) <= config.max_buffer_len
    /\ pc # "panic" =>
           search_buffer.values =
               Suffix(Slice(input, 0, Fed), Min(config.max_buffer_len, Fed))

\* C6 witness: a full window that has slid by more than one symbol
C6_Witness ==
    /\ pc = "done"
    /\ config.max_buffer_len >= N
    /\ len(search_buffer) = config.max_buffer_len
    /\ start(search_buffer) >= 2
    /\ \E i \in 1..Len(items) : items[i].kind = "Ref"

\* C7: after each item from_items has processed, the reconstructor buffer
\* holds at most max_buffer_len symbols, and they are the most recent symbols
\* yielded so far.
C7_BoundedReconstructor ==
    /\ Len(buffer) <= config.max_buffer_len
    /\ dpc # "panic" =>
           buffer = Suffix(decoded, Min(config.max_buffer_len, Len(decoded)))

\* C7 witness: a Ref has been replayed into a buffer that was full, and the
\* surplus head was discarded
C7_Witness ==
    /\ consumed >= 2
    /\ items[consumed].kind = "Ref"
    /\ items[consumed].back < items[consumed].len
    /\ Len(decoded) > config.max_buffer_len
    /\ Len(buffer) = config.max_buffer_len
    /\ config.max_buffer_len >= 2

\* ------------------------------------------------ claims: SearchBuffer index
\* the positions find_longest_match can reach: heads entries and offsets chain
\* pointers that pass the staleness check (entry >= offset)
LivePointers ==
    {search_buffer.heads[g] - search_buffer.offset :
        g \in {h \in DOMAIN search_buffer.heads :
                  search_buffer.heads[h] >= search_buffer.offset}}
    \cup {search_buffer.offsets[i] - search_buffer.offset :
            i \in {j \in 1..Len(search_buffer.offsets) :
                      search_buffer.offsets[j] >= search_buffer.offset}}

\* C11: find_longest_match never panics. In every state the public operations
\* reach, every heads entry and chain pointer that passes the staleness check
\* is an index of offsets and of values, and no query ends in a panic (an
\* out-of-range offsets[next] or a failed debug assertion).
C11_FindLongestMatchNeverPanics ==
    ~search_buffer.panicked =>
        /\ \A p \in LivePointers :
               p < Len(search_buffer.offsets) /\ p < Len(search_buffer.values)
        /\ ~found.panic

\* C11 witness: a query answered from the hash chain of a buffer that has
\* retired symbols, holds stale heads entries and a live chain pointer
C11_Witness ==
    /\ found.some
    /\ start(search_buffer) > 0
    /\ \E g \in DOMAIN search_buffer.heads :
           search_buffer.heads[g] < search_buffer.offset
    /\ \E i \in 1..Len(search_buffer.offsets) :
           search_buffer.offsets[i] >= search_buffer.offset
    /\ found.start + N < end(search_buffer)
    /\ Slice(probe, 0, N) \in DOMAIN search_buffer.heads

\* the symbol read by sb[p] (impl Index<usize> for SearchBuffer)
Index(sb, p) == sb.values[(p + 1 - sb.offset) + 1]

\* C12: retired positions are never matched. Once symbols have been removed,
\* a returned range starts at an absolute index >= start(), and a probe whose
\* leading N-gram is known to the heads table only at a removed position, and
\* that matches at no live position, yields None.
C12_RetiredNeverMatched ==
    (start(search_buffer) > 0 /\ ~search_buffer.panicked) =>
        /\ found.some => found.start >= start(search_buffer)
        /\ ( /\ Len(probe) > N
             /\ Slice(probe, 0, N) \in DOMAIN search_buffer.heads
             /\ search_buffer.heads[Slice(probe, 0, N)] < search_buffer.offset
             /\ BestPrefix < N ) => found = None

\* C12 witness: a non-empty window after a removal, a probe whose N-gram the
\* heads table holds at a removed position only, and the answer None
C12_Witness ==
    /\ start(search_buffer) >= N
    /\ len(search_buffer) >= N
    /\ Len(probe) > N
    /\ Slice(probe, 0, N) \in DOMAIN search_buffer.heads
    /\ search_buffer.heads[Slice(probe, 0, N)] < search_buffer.offset
    /\ search_buffer.heads[Slice(probe, 0, N)] > 0
    /\ found = None

\* C13: absolute indices are stable and never reused. No operation decreases
\* start() or end(), and every absolute index that is live before and after
\* an operation reads the same symbol.
C13_StableIndices ==
    [][ /\ start(search_buffer') >= start(search_buffer)
        /\ end(search_buffer') >= end(search_buffer)
        /\ \A p \in start(search_buffer')..(end(search_buffer) - 1) :
               Index(search_buffer', p) = Index(search_buffer, p) ]_vars

\* the same for the operations that return: a panicking call is left out
C13_StableIndicesOnReturn ==
    [][ ~search_buffer'.panicked =>
        /\ start(search_buffer') >= start(search_buffer)
        /\ end(search_buffer') >= end(search_buffer)
        /\ \A p \in start(search_buffer')..(end(search_buffer) - 1) :
               Index(search_buffer', p) = Index(search_buffer, p) ]_vars

\* ------------------------------------------------------------- Item codec
\* bounds of the codec specification
MaxItems == 2
MaxRawLen == 2
MaxField == 2

\* the symbols of a raw run as they appear on the wire; 0 is a symbol too
WireSymbols == {0, 1}

\* Item::Ref { back, len }
RefItem(back, l) == [kind |-> "Ref", raw |-> <<>>, back |-> back, len |-> l]

\* every Item<T>: a Raw of any length, a Ref with back >= 1 and any len
AnyItems ==
    {Raw(raw) : raw \in SeqsUpTo(WireSymbols, MaxRawLen)}
    \cup {RefItem(back, l) : back \in 1..MaxField, l \in 0..MaxField}

\* the tag of a Raw is the literal 0, an i32, which the wire format of the
\* tests (postcard) writes zigzag-encoded; the decoder reads it as a usize
zigzag(v) == IF v >= 0 THEN 2 * v ELSE -2 * v - 1

\* mutant of serialize: a raw run is written without its tag
serialize_raw_untagged(item) ==
    IF item.kind = "Raw" THEN <<Len(item.raw)>> \o item.raw
    ELSE <<item.back, item.len>>

\* impl Serialize for Item: the elements handed to the tuple serializer
serialize(item) ==
    IF item.kind = "Raw" THEN <<zigzag(0), Len(item.raw)>> \o item.raw
    ELSE <<item.back, item.len>>

\* the outcome of a deserialization: the item and the fields left, or an error
DeOk(item, rest) == [ok |-> TRUE, item |-> item, rest |-> rest]
DeErr == [ok |-> FALSE, item |-> Raw(<<>>), rest |-> <<>>]

\* mutant of deserialize: only a first field above 1 makes a Ref
deserialize_ref_above_one(wire) ==
    IF Len(wire) < 2 THEN DeErr
    ELSE IF wire[1] > 1 THEN DeOk(RefItem(wire[1], wire[2]), Slice(wire, 2, Len(wire)))
    ELSE IF Len(wire) - 2 < wire[2] THEN DeErr
    ELSE DeOk(Raw(Slice(wire, 2, 2 + wire[2])), Slice(wire, 2 + wire[2], Len(wire)))

\* impl Deserialize for Item (Vis::visit_seq): next_element fails when the
\* fields run out
deserialize(wire) ==
    IF Len(wire) < 2 THEN DeErr
    ELSE LET back == wire[1]
             l == wire[2]
         IN  IF back # 0 THEN DeOk(RefItem(back, l), Slice(wire, 2, Len(wire)))
             ELSE IF Len(wire) - 2 < l THEN DeErr
             ELSE DeOk(Raw(Slice(wire, 2, 2 + l)), Slice(wire, 2 + l, Len(wire)))

CodecFrame == UNCHANGED <<FactorizerVars, ReconstructorVars, QueryVars, Params,
                          SlideVars, call>>

\* the next item is serialized onto the wire
Serialize ==
    /\ codec.sent < Len(items)
    /\ codec' = [codec EXCEPT !.sent = @ + 1,
                              !.wire = @ \o serialize(items[codec.sent + 1])]
    /\ CodecFrame

\* the next item is deserialized from the wire
Deserialize ==
    /\ ~codec.error
    /\ Len(codec.received) < codec.sent
    /\ LET d == deserialize(codec.wire)
       IN  codec' = IF d.ok
                    THEN [codec EXCEPT !.wire = d.rest, !.received = Append(@, d.item)]
                    ELSE [codec EXCEPT !.error = TRUE]
    /\ CodecFrame

InitCodec ==
    /\ N = 1
    /\ config = DefaultConfig
    /\ input = <<>>
    /\ iter = <<>>
    /\ match_window = <<>>
    /\ raw_len = 0
    /\ back_ref = NoBackRef
    /\ windows = <<>>
    /\ search_buffer = with_hasher
    /\ items \in SeqsUpTo(AnyItems, MaxItems)
    /\ pc = "done"
    /\ buffer = <<>>
    /\ decoded = <<>>
    /\ consumed = 0
    /\ dpc = "run"
    /\ probe = <<>>
    /\ found = None
    /\ debug_assertions = TRUE
    /\ slide_state = EmptySlide
    /\ fresh = 0
    /\ released = <<>>
    /\ call = NoCall
    /\ codec = NoCodec

NextCodec ==
    \/ Serialize
    \/ Deserialize

SpecCodec == InitCodec /\ [][NextCodec]_vars

\* ------------------------------------------------------ claims: Item codec
\* C14: codec round trip. The items decoded so far are the items encoded, in
\* order; no decoding fails; and once as many items are decoded as were
\* encoded, no field is left on the wire.
C14_CodecRoundTrip ==
    /\ ~codec.error
    /\ codec.received = SubSeq(items, 1, Len(codec.received))
    /\ Len(codec.received) = codec.sent => codec.wire = <<>>

\* C14 witness: a whole sequence came through that holds an empty Raw or a Raw
\* with the symbol 0, and a Ref
C14_Witness ==
    /\ Len(items) >= 2
    /\ codec.received = items
    /\ codec.wire = <<>>
    /\ \E i \in 1..Len(items) :
           items[i].kind = "Raw" /\ (items[i].raw = <<>> \/ items[i].raw[1] = 0)
    /\ \E i \in 1..Len(items) : items[i].kind = "Ref"

\* C15: the first field tells the kind. Raw(seq) is written as 0, |seq|, seq...
\* and Ref as back, len with back >= 1; the decoder makes a Ref iff the first
\* field is nonzero, taking two fields, and a Raw iff it is zero, taking
\* 2 + len fields.
C15_FirstFieldDisambiguates ==
    [][ /\ codec'.sent > codec.sent =>
             LET it == items[codec'.sent]
             IN  /\ it.kind = "Raw" =>
                        codec'.wire = codec.wire \o <<0, Len(it.raw)>> \o it.raw
                 /\ it.kind = "Ref" =>
                        /\ it.back >= 1
                        /\ codec'.wire = codec.wire \o <<it.back, it.len>>
        /\ Len(codec'.received) > Len(codec.received) =>
             LET f == codec.wire
                 it == codec'.received[Len(codec'.received)]
                 used == Len(codec.wire) - Len(codec'.wire)
             IN  /\ it.kind = "Ref" <=> f[1] # 0
                 /\ it.kind = "Raw" <=> f[1] = 0
                 /\ it.kind = "Ref" => used = 2 /\ it.back = f[1] /\ it.len = f[2]
                 /\ it.kind = "Raw" => used = 2 + f[2] /\ it.raw = Slice(f, 2, 2 + f[2])
                 /\ codec'.wire = Slice(f, used, Len(f)) ]_vars

\* C15 witness: a Ref was decoded and then a non-empty Raw
C15_Witness ==
    /\ Len(codec.received) >= 2
    /\ codec.received[1].kind = "Ref"
    /\ codec.received[2].kind = "Raw"
    /\ codec.received[2].raw # <<>>
    /\ ~codec.error

\* ------------------------------------------------------------------ Slide
\* the Slide struct itself: data is a boxed slice of slots, the live elements
\* are data[start..end]. Elements are numbered 1, 2, ... in the order they are
\* handed to the Slide, so that every element is distinguishable.
MaxElems == 4

\* Slide::len, Slide::capacity, Slide::tail_capacity
slide_len(s) == s.end - s.start
capacity(s) == Len(s.data)
tail_capacity(s) == capacity(s) - s.end

\* impl Deref for Slide: the live elements
deref(s) == Slice(s.data, s.start, s.end)

\* n slots of MaybeUninit::uninit()
Uninits(n) == [i \in 1..n |-> Uninit]

\* usize::next_power_of_two
RECURSIVE pow2_at_least(_, _)
pow2_at_least(x, p) == IF p >= x THEN p ELSE pow2_at_least(x, 2 * p)
next_power_of_two(x) == pow2_at_least(x, 1)

\* the in-place branch of ensure_capacity: data[x] = replace(data[start + x], uninit)
RECURSIVE move_down(_, _, _, _)
move_down(slots, st, x, l) ==
    IF x >= l THEN slots
    ELSE move_down([slots EXCEPT ![x + 1] = slots[st + x + 1], ![st + x + 1] = Uninit],
                   st, x + 1, l)

\* mutant of ensure_capacity: the capacity never gets smaller
ensure_capacity_never_shrinks(s, new_capacity) ==
    LET l == slide_len(s)
        wanted == Max(new_capacity, l)
    IN  IF wanted > tail_capacity(s) + l
        THEN LET grown == Max(capacity(s), next_power_of_two(wanted + wanted \div 2))
             IN  IF grown # capacity(s)
                 THEN [data |-> deref(s) \o Uninits(grown - l), start |-> 0, end |-> l]
                 ELSE [data |-> move_down(s.data, s.start, 0, l), start |-> 0, end |-> l]
        ELSE s

\* Slide::ensure_capacity (the overflow of new_capacity + new_capacity / 2 is
\* out of reach of the lengths explored)
ensure_capacity(s, new_capacity) ==
    LET l == slide_len(s)
        wanted == Max(new_capacity, l)
    IN  IF wanted > tail_capacity(s) + l
        THEN LET grown == next_power_of_two(wanted + wanted \div 2)
             IN  IF grown # capacity(s)
                 THEN [data |-> deref(s) \o Uninits(grown - l), start |-> 0, end |-> l]
                 ELSE [data |-> move_down(s.data, s.start, 0, l), start |-> 0, end |-> l]
        ELSE s

\* Slide::push
slide_push(s, val) ==
    LET s1 == IF tail_capacity(s) = 0 THEN ensure_capacity(s, slide_len(s) + 1) ELSE s
    IN  [s1 EXCEPT !.data[s1.end + 1] = val, !.end = @ + 1]

\* Slide::pop: the Slide afterwards, and the Option returned (<<>> is None)
slide_pop(s) ==
    IF s.start = s.end THEN s
    ELSE LET emptied == s.start + 1 = s.end
         IN  [data |-> [s.data EXCEPT ![s.start + 1] = Uninit],
              start |-> IF emptied THEN 0 ELSE s.start + 1,
              end |-> IF emptied THEN 0 ELSE s.end]
slide_pop_ret(s) == IF s.start = s.end THEN <<>> ELSE <<s.data[s.start + 1]>>

\* mutant of slide_step: an empty Slide stores the element
slide_step_stores_on_empty(s, val) == slide_push(slide_pop(s), val)

\* Slide::step
slide_step(s, val) ==
    IF s.start = s.end THEN s ELSE slide_push(slide_pop(s), val)
slide_step_ret(s, val) ==
    IF s.start = s.end THEN <<val>> ELSE slide_pop_ret(s)

\* impl Extend for Slide; hint is the lower bound of the iterator's size_hint
RECURSIVE slide_extend_loop(_, _)
slide_extend_loop(s, seq) ==
    IF seq = <<>> THEN s
    ELSE slide_extend_loop(slide_push(s, Head(seq)), Tail(seq))
slide_extend(s, seq, hint) ==
    slide_extend_loop(ensure_capacity(s, slide_len(s) + hint), seq)

\* mutant of rotate_right: the slice is left as it is
rotate_right_nothing(w, k) == w

\* <[T]>::rotate_right and rotate_left
rotate_right(w, k) == Slice(w, Len(w) - k, Len(w)) \o Slice(w, 0, Len(w) - k)
rotate_left(w, k) == Slice(w, k, Len(w)) \o Slice(w, 0, k)

\* the slots lo..hi of data replaced by uninit (the drain iterator consumed)
take_slots(slots, lo, hi) ==
    [i \in 1..Len(slots) |-> IF lo < i /\ i <= hi THEN Uninit ELSE slots[i]]

\* data with the live window data[start..end] replaced by w
with_window(s, w) ==
    [i \in 1..Len(s.data) |->
        IF s.start < i /\ i <= s.end THEN w[i - s.start] ELSE s.data[i]]

\* the result of a drain: the Slide afterwards, the elements the iterator
\* yields when consumed to its end, and whether the call panicked
DrainResult(s, out, panic) == [slide |-> s, out |-> out, panic |-> panic]

\* mutant of slide_drain: the range is clamped to the window, never refused
slide_drain_clamped(s, l, r) ==
    LET r1 == Min(r, slide_len(s))
        l1 == Min(l, r1)
        w == deref(s)
        rest == Slice(w, 0, l1) \o Slice(w, r1, Len(w))
    IN  DrainResult([data |-> rest \o Uninits(capacity(s) - Len(rest)),
                     start |-> 0, end |-> Len(rest)],
                    Slice(w, l1, r1), FALSE)

\* Slide::drain(l..r), the returned iterator consumed to its end
slide_drain(s, l, r) ==
    LET l0 == slide_len(s)
        n == r - l
        w == deref(s)
    IN  IF ~(l <= r /\ r <= l0) THEN DrainResult(s, <<>>, TRUE)
        ELSE IF l < l0 - r
             THEN LET w2 == IF l > 0
                            THEN rotate_right(Slice(w, 0, r), n) \o Slice(w, r, l0)
                            ELSE w
                      d2 == with_window(s, w2)
                      st == s.start + n
                      emptied == s.end - st = 0
                  IN  DrainResult([data |-> take_slots(d2, s.start, s.start + n),
                                   start |-> IF emptied THEN 0 ELSE st,
                                   end |-> IF emptied THEN 0 ELSE s.end],
                                  Slice(d2, s.start, s.start + n), FALSE)
             ELSE LET w2 == IF l < l0
                            THEN Slice(w, 0, l) \o rotate_left(Slice(w, l, l0), n)
                            ELSE w
                      d2 == with_window(s, w2)
                      en == s.end - n
                      emptied == en - s.start = 0
                  IN  DrainResult([data |-> take_slots(d2, s.end - n, s.end),
                                   start |-> IF emptied THEN 0 ELSE s.start,
                                   end |-> IF emptied THEN 0 ELSE en],
                                  Slice(d2, s.end - n, s.end), FALSE)

\* Slide::clear
slide_clear(s) == slide_drain(s, 0, slide_len(s)).slide

\* the first slot (0-based) of the range Slide::drain hands to its iterator
drain_range_start(s, l, r) ==
    IF l < slide_len(s) - r THEN s.start ELSE s.end - (r - l)

\* Slide::drain(l..r) whose iterator is dropped after k elements: the iterator
\* is a lazy map over the slots, so the slots it did not reach keep their
\* elements, outside the window
slide_drain_abandoned(s, l, r, k) ==
    LET d == slide_drain(s, l, r)
        lo == drain_range_start(s, l, r)
    IN  DrainResult([d.slide EXCEPT !.data =
                        [i \in 1..Len(@) |->
                            IF lo + k < i /\ i <= lo + (r - l) THEN d.out[i - lo] ELSE @[i]]],
                    Slice(d.out, 0, k), d.panic)

\* the elements of out are given up once more each
Release(rel, out) ==
    [id \in 1..Len(rel) |-> rel[id] + Cardinality({j \in 1..Len(out) : out[j] = id})]

\* k further elements are stored, none of them given up yet
Stored(rel, k) == rel \o [i \in 1..k |-> 0]

\* a recorded call
Call(op, a, b, out, panic) ==
    [op |-> op, a |-> a, b |-> b, out |-> out, panic |-> panic]

SlideFrame == UNCHANGED <<FactorizerVars, ReconstructorVars, QueryVars, Params, codec>>

SlidePush ==
    /\ fresh < MaxElems
    /\ slide_state' = slide_push(slide_state, fresh + 1)
    /\ fresh' = fresh + 1
    /\ released' = Stored(released, 1)
    /\ call' = Call("push", 0, 0, <<>>, FALSE)
    /\ SlideFrame

SlidePop ==
    /\ slide_state' = slide_pop(slide_state)
    /\ call' = Call("pop", 0, 0, slide_pop_ret(slide_state), FALSE)
    /\ released' = Release(released, slide_pop_ret(slide_state))
    /\ UNCHANGED fresh
    /\ SlideFrame

SlideStep ==
    /\ fresh < MaxElems
    /\ slide_state' = slide_step(slide_state, fresh + 1)
    /\ fresh' = fresh + 1
    /\ call' = Call("step", 0, 0, slide_step_ret(slide_state, fresh + 1), FALSE)
    /\ released' = Release(Stored(released, 1), slide_step_ret(slide_state, fresh + 1))
    /\ SlideFrame

SlideDrain ==
    /\ \E l \in 0..(slide_len(slide_state) + 1), r \in 0..(slide_len(slide_state) + 1) :
           LET d == slide_drain(slide_state, l, r)
           IN  /\ slide_state' = d.slide
               /\ call' = Call("drain", l, r, d.out, d.panic)
               /\ released' = Release(released, d.out)
    /\ UNCHANGED fresh
    /\ SlideFrame

\* a drain whose iterator the caller drops before its end
SlideDrainAbandon ==
    /\ \E r \in 1..slide_len(slide_state) :
       \E l \in 0..(r - 1) :
       \E k \in 0..(r - l - 1) :
           LET d == slide_drain_abandoned(slide_state, l, r, k)
           IN  /\ slide_state' = d.slide
               /\ call' = Call("drain_abandoned", l, r, d.out, d.panic)
               /\ released' = Release(released, d.out)
    /\ UNCHANGED fresh
    /\ SlideFrame

SlideExtend ==
    /\ \E k \in 0..(MaxElems - fresh) :
           LET seq == [i \in 1..k |-> fresh + i]
           IN  /\ \E hint \in {0, k} :
                      slide_state' = slide_extend(slide_state, seq, hint)
               /\ fresh' = fresh + k
               /\ released' = Stored(released, k)
               /\ call' = Call("extend", k, 0, <<>>, FALSE)
    /\ SlideFrame

SlideClear ==
    /\ slide_state' = slide_clear(slide_state)
    /\ call' = Call("clear", 0, 0, <<>>, FALSE)
    /\ released' = Release(released, deref(slide_state))
    /\ UNCHANGED fresh
    /\ SlideFrame

InitSlide ==
    /\ N = 1
    /\ config = DefaultConfig
    /\ input = <<>>
    /\ iter = <<>>
    /\ match_window = <<>>
    /\ raw_len = 0
    /\ back_ref = NoBackRef
    /\ windows = <<>>
    /\ search_buffer = with_hasher
    /\ items = <<>>
    /\ pc = "top"
    /\ buffer = <<>>
    /\ decoded = <<>>
    /\ consumed = 0
    /\ dpc = "run"
    /\ probe = <<>>
    /\ found = None
    /\ debug_assertions = TRUE
    /\ slide_state = EmptySlide
    /\ fresh = 0
    /\ released = <<>>
    /\ call = NoCall
    /\ codec = NoCodec

NextSlide ==
    \/ SlidePush
    \/ SlidePop
    \/ SlideStep
    \/ SlideDrain
    \/ SlideDrainAbandon
    \/ SlideExtend
    \/ SlideClear

SpecSlide == InitSlide /\ [][NextSlide]_vars

\* ---------------------------------------------------------- claims: Slide
\* C16: drain preserves order. A drain(l..r) with l <= r <= len yields the
\* elements at positions l..r in order and leaves the other elements in
\* order; a pop returns the first remaining element, or None from an empty
\* Slide.
C16_DrainPreservesOrder ==
    [][ /\ (call'.op = "drain" /\ call'.a <= call'.b /\ call'.b <= slide_len(slide_state)) =>
             /\ ~call'.panic
             /\ call'.out = Slice(deref(slide_state), call'.a, call'.b)
             /\ deref(slide_state') =
                    Slice(deref(slide_state), 0, call'.a)
                    \o Slice(deref(slide_state), call'.b, slide_len(slide_state))
        /\ call'.op = "pop" =>
             IF deref(slide_state) = <<>>
             THEN call'.out = <<>> /\ deref(slide_state') = <<>>
             ELSE /\ call'.out = <<Head(deref(slide_state))>>
                  /\ deref(slide_state') = Tail(deref(slide_state)) ]_vars

\* C16 witness: a drain from the middle of a Slide whose window does not start
\* at slot 0 took elements and left a prefix and a suffix
C16_Witness ==
    /\ call.op = "drain"
    /\ ~call.panic
    /\ call.a >= 1
    /\ call.out # <<>>
    /\ slide_len(slide_state) > call.a
    /\ slide_state.start > 0

\* C17: drain(l..r) panics when l > r or r > len, and only then, and the
\* failed call leaves data, start and end as they were.
C17_DrainPanicsUnchanged ==
    [][ call'.op = "drain" =>
          /\ call'.panic <=> (call'.a > call'.b \/ call'.b > slide_len(slide_state))
          /\ call'.panic => slide_state' = slide_state ]_vars

\* C17 witness: a refused drain on a Slide that holds elements
C17_Witness ==
    /\ call.op = "drain"
    /\ call.panic
    /\ call.b > slide_len(slide_state)
    /\ slide_len(slide_state) >= 2

\* ------------------------------------------- SearchBuffer: self-copy calls
\* a buffer built by the public operations, then one extend_from_within whose
\* arguments are recorded
CopyFromWithin ==
    /\ Idle
    /\ \E a \in 0..end(search_buffer), b \in 0..(MaxEnd + 1) :
           /\ b > a => end(search_buffer) + (b - a) <= MaxEnd
           /\ search_buffer' = extend_from_within(search_buffer, a, b)
           /\ call' = Call("extend_from_within", a, b, <<>>, search_buffer'.panicked)
    /\ UNCHANGED <<iter, match_window, raw_len, back_ref, items, windows, pc,
                   ReconstructorVars, QueryVars, Params, SlideVars, codec>>

NextCopy ==
    \/ Push
    \/ Step
    \/ Drain
    \/ Extend
    \/ CopyFromWithin

SpecCopy == InitApi /\ [][NextCopy]_vars

\* C18: run-over-edge copy. extend_from_within(a..b) with a in the window
\* appends exactly b - a symbols (none when b <= a) behind the unchanged
\* window; the i-th appended symbol is the symbol end() - a places before it,
\* which makes the appended symbols the cyclic repetition of window[a..end())
\* (end() as at entry), and a plain copy of [a, b) when b <= end().
C18_RunOverEdgeCopy ==
    [][ (call'.op = "extend_from_within" /\ ~call'.panic) =>
          LET a == call'.a
              b == call'.b
              e0 == end(search_buffer)
              period == e0 - a
              n == IF b > a THEN b - a ELSE 0
          IN  /\ start(search_buffer') = start(search_buffer)
              /\ end(search_buffer') = e0 + n
              /\ Slice(search_buffer'.values, 0, len(search_buffer)) = search_buffer.values
              /\ \A i \in 0..(n - 1) :
                     /\ Index(search_buffer', e0 + i) = Index(search_buffer', e0 + i - period)
                     /\ Index(search_buffer', e0 + i) = Index(search_buffer, a + (i % period))
              /\ b <= e0 =>
                     Slice(search_buffer'.values, len(search_buffer), len(search_buffer'))
                     = Slice(search_buffer.values, a - start(search_buffer),
                             a - start(search_buffer) + n) ]_vars

\* C18 witness: a copy that ran over the edge of a window with retired symbols,
\* from a source of two different symbols, by more than one chunk
C18_Witness ==
    /\ call.op = "extend_from_within"
    /\ ~call.panic
    /\ start(search_buffer) > 0
    /\ call.a >= start(search_buffer)
    /\ LET n == call.b - call.a
           period == end(search_buffer) - n - call.a
       IN  /\ period >= 2
           /\ n > period
           /\ Index(search_buffer, call.a) # Index(search_buffer, call.a + 1)

\* ------------------------------------------------- claims: error handling
\* C19: configuration errors. With match_lengths.start = 0, match_lengths.end
\* = 0, match_lengths.start >= match_lengths.end or max_buffer_len = 0 the
\* factorizer and the reconstructor are refused at construction: no item is
\* ever returned and no symbol is ever yielded.
C19_InvalidConfigRejected ==
    ~ValidConfig => (items = <<>> /\ decoded = <<>>)

\* --------------------------------------------- from_items on any item stream
\* the configurations from_items is run with on arbitrary streams
DecodeConfigs ==
    [max_buffer_len : {1, MaxBufferLen},
     match_lengths : [start : 0..1, end : {MaxField, MaxField + 1}]]

\* the caller's iterator hands the next item to from_items
Feed ==
    /\ dpc = "run"
    /\ consumed = Len(items)
    /\ Len(items) < MaxItems
    /\ \E item \in AnyItems : items' = Append(items, item)
    /\ UNCHANGED <<iter, match_window, raw_len, back_ref, search_buffer, windows, pc,
                   ReconstructorVars, QueryVars, Params, SlideVars, call, codec>>

\* a fresh Slide, either build, and no item yet
InitDecode ==
    /\ N = 1
    /\ config \in DecodeConfigs
    /\ debug_assertions \in BOOLEAN
    /\ input = <<>>
    /\ iter = <<>>
    /\ match_window = <<>>
    /\ raw_len = 0
    /\ back_ref = NoBackRef
    /\ windows = <<>>
    /\ search_buffer = with_hasher
    /\ items = <<>>
    /\ pc = "done"
    /\ buffer = <<>>
    /\ decoded = <<>>
    /\ consumed = 0
    /\ dpc = "run"
    /\ probe = <<>>
    /\ found = None
    /\ slide_state = EmptySlide
    /\ fresh = 0
    /\ released = <<>>
    /\ call = NoCall
    /\ codec = NoCodec

NextDecode ==
    \/ Feed
    \/ Decode

SpecDecode == InitDecode /\ [][NextDecode]_vars

\* a Ref the reconstructor must refuse: back beyond the buffer, len = 0, or
\* len outside match_lengths
BadRef(item) ==
    /\ item.kind = "Ref"
    /\ \/ item.back > Len(buffer)
       \/ item.len = 0
       \/ item.len < config.match_lengths.start
       \/ item.len >= config.match_lengths.end

\* C20: decode protocol errors. When from_items is handed a Ref with back
\* beyond the buffer, with len = 0 or with len outside match_lengths, the call
\* fails, nothing is yielded for the item and the buffer is left as it was;
\* after the failure nothing more is yielded.
C20_ProtocolErrorStops ==
    [][ /\ (consumed' # consumed \/ dpc' # dpc) =>
              (BadRef(items[consumed + 1]) =>
                  /\ dpc' = "panic"
                  /\ buffer' = buffer
                  /\ decoded' = decoded)
        /\ dpc = "panic" => (decoded' = decoded /\ buffer' = buffer) ]_vars

\* the same in a build with debug assertions and a valid configuration
C20_ProtocolErrorStopsDebugValid ==
    [][ (debug_assertions /\ ValidConfig /\ (consumed' # consumed \/ dpc' # dpc)) =>
              (BadRef(items[consumed + 1]) =>
                  /\ dpc' = "panic"
                  /\ buffer' = buffer
                  /\ decoded' = decoded) ]_vars

\* ------------------------------------------ claims: SearchBuffer operations
\* C21: pop removes the oldest symbol of any non-empty buffer, also of one that
\* holds fewer than N symbols: len() decreases by one, start() increases by
\* one, the heads table is untouched and the call returns; on an empty buffer
\* nothing changes. step and push_step therefore return for every max_len.
C21_PopAnyNonEmpty ==
    [][ /\ Pop =>
             IF search_buffer.values = <<>>
             THEN search_buffer' = search_buffer
             ELSE /\ ~search_buffer'.panicked
                  /\ search_buffer'.values = Tail(search_buffer.values)
                  /\ start(search_buffer') = start(search_buffer) + 1
                  /\ search_buffer'.heads = search_buffer.heads
        /\ (Step \/ PushStep) => ~search_buffer'.panicked ]_vars

\* the same for buffers that hold at least N symbols
C21_PopWithNSymbols ==
    [][ (Pop /\ len(search_buffer) >= N) =>
             /\ ~search_buffer'.panicked
             /\ search_buffer'.values = Tail(search_buffer.values)
             /\ start(search_buffer') = start(search_buffer) + 1
             /\ search_buffer'.heads = search_buffer.heads ]_vars

\* ------------------------------------------------- claims: Slide operations
\* C22: step(v) on a non-empty Slide returns the first element and leaves the
\* others followed by v, the length unchanged; on an empty Slide it returns v
\* and the Slide stays empty.
C22_StepReturnsOldest ==
    [][ call'.op = "step" =>
          IF deref(slide_state) = <<>>
          THEN call'.out = <<fresh'>> /\ deref(slide_state') = <<>>
          ELSE /\ call'.out = <<Head(deref(slide_state))>>
               /\ deref(slide_state') = Append(Tail(deref(slide_state)), fresh')
               /\ slide_len(slide_state') = slide_len(slide_state) ]_vars

\* C22 witness: a step on a Slide of several elements returned the oldest and
\* stored the new element last
C22_Witness ==
    /\ call.op = "step"
    /\ slide_len(slide_state) >= 3
    /\ call.out # <<>>
    /\ call.out[1] < deref(slide_state)[1]
    /\ deref(slide_state)[slide_len(slide_state)] = fresh

\* C22 witness of the other case: a step on an empty Slide handed v back
C22_WitnessEmpty ==
    /\ call.op = "step"
    /\ slide_len(slide_state) = 0
    /\ call.out = <<fresh>>

\* ---------------------------------------------- claims: SearchBuffer index
\* the N-gram that starts at window position rel (0-based)
GramAt(rel) == Slice(search_buffer.values, rel, rel + N)

\* the window positions at which an N-gram lies fully inside the window
GramPositions ==
    {rel \in 0..(len(search_buffer) - 1) : rel + N <= len(search_buffer)}

\* the greatest element of a non-empty set of numbers
Greatest(S) == CHOOSE k \in S : \A j \in S : j <= k

\* C23: N-gram chain invariant. For every N-gram g fully inside the window,
\* heads[g] - 1 is the greatest absolute index at which g starts in the
\* window; from every occurrence i of g, offsets[i - start()] - 1 is the next
\* smaller absolute index at which g starts in the window, and is below
\* start() when no older occurrence is in the window.
C23_NGramChain ==
    ~search_buffer.panicked =>
        \A rel \in GramPositions :
            LET g == GramAt(rel)
                same == {r \in GramPositions : GramAt(r) = g}
                older == {r \in same : r < rel}
                ptr == search_buffer.offsets[rel + 1]
            IN  /\ rel < Len(search_buffer.offsets)
                /\ g \in DOMAIN search_buffer.heads
                /\ search_buffer.heads[g] - 1 = start(search_buffer) + Greatest(same)
                /\ IF older = {}
                   THEN ptr - 1 < start(search_buffer)
                   ELSE ptr - 1 = start(search_buffer) + Greatest(older)

\* C23 witness: an N-gram with two occurrences in the window and an older one
\* that has left it
C23_Witness ==
    /\ ~search_buffer.panicked
    /\ \E rel \in GramPositions :
           /\ search_buffer.offsets[rel + 1] >= search_buffer.offset
           /\ LET prev == search_buffer.offsets[rel + 1] - search_buffer.offset
              IN  /\ search_buffer.offsets[prev + 1] > 0
                  /\ search_buffer.offsets[prev + 1] < search_buffer.offset

\* C24: the offsets sequence has exactly max(len(values) - (N - 1), 0)
\* entries in every state, the assertion of len().
C24_OffsetsLength ==
    Len(search_buffer.offsets) = saturating_sub(Len(search_buffer.values), N - 1)

\* C24 witness: symbols were retired and fewer than N are left
C24_Witness ==
    /\ N >= 2
    /\ start(search_buffer) >= N
    /\ len(search_buffer) >= 1
    /\ len(search_buffer) < N
    /\ ~search_buffer.panicked

\* ---------------------------------------------------------------------------
\* the elements the Slide's window holds
Live == {deref(slide_state)[i] : i \in 1..slide_len(slide_state)}

\* C28: every element ever stored in a Slide is dropped exactly once: an
\* element still in the window has not been given up (the Slide's own drop
\* releases it), and every element that left the window has been given up
\* exactly once, handed to the caller or dropped, also when the caller
\* abandons a drain iterator with elements unconsumed.
C28_DroppedExactlyOnce ==
    /\ Len(released) = fresh
    /\ \A id \in 1..fresh :
           released[id] = (IF id \in Live THEN 0 ELSE 1)

\* the part that holds: no element is given up twice, and none that the
\* window still holds has been given up
C28_NeverDroppedTwice ==
    /\ Len(released) = fresh
    /\ \A id \in 1..fresh :
           released[id] <= (IF id \in Live THEN 0 ELSE 1)

\* every element that left the window through anything but an abandoned
\* drain is given up exactly once
C28_LeakOnlyByAbandonedDrain ==
    [][ call'.op # "drain_abandoned" =>
          \A id \in 1..fresh' :
              (id \in Live \/ id > fresh) /\ id \notin Live' => released'[id] = 1 ]_vars

\* ---------------------------------------------------------------------------
\* the slots (1-based) of the window [start, end)
WindowSlots == (slide_state.start + 1)..slide_state.end

\* C25: in every reachable Slide state 0 <= start <= end <= capacity, exactly
\* the slots in [start, end) hold live elements (initialized and not yet
\* dropped or handed out), and an empty Slide has start = end = 0.
C25_SlideInvariants ==
    /\ 0 <= slide_state.start
    /\ slide_state.start <= slide_state.end
    /\ slide_state.end <= capacity(slide_state)
    /\ \A i \in 1..capacity(slide_state) :
           i \in WindowSlots <=> slide_state.data[i] # Uninit
    /\ \A i \in WindowSlots : released[slide_state.data[i]] = 0
    /\ slide_len(slide_state) = 0 => slide_state.start = 0 /\ slide_state.end = 0

\* the part that holds: the bounds, the window's slots all hold elements not
\* yet given up, pairwise distinct, an empty Slide has start = end = 0, and a
\* slot outside the window is uninitialized or holds a leaked element, which
\* the window does not hold and which was never given up
C25_WindowInitialized ==
    /\ 0 <= slide_state.start
    /\ slide_state.start <= slide_state.end
    /\ slide_state.end <= capacity(slide_state)
    /\ \A i \in WindowSlots :
           /\ slide_state.data[i] # Uninit
           /\ released[slide_state.data[i]] = 0
           /\ \A j \in WindowSlots : slide_state.data[i] = slide_state.data[j] => i = j
    /\ \A i \in (1..capacity(slide_state)) \ WindowSlots :
           \/ slide_state.data[i] = Uninit
           \/ /\ slide_state.data[i] \notin Live
              /\ released[slide_state.data[i]] = 0
    /\ slide_len(slide_state) = 0 => slide_state.start = 0 /\ slide_state.end = 0

\* without an abandoned drain, exactly the window's slots are initialized
C25_ExactWithoutAbandonedDrain ==
    (\A id \in 1..fresh : id \notin Live => released[id] = 1)
        => \A i \in 1..capacity(slide_state) :
               i \in WindowSlots <=> slide_state.data[i] # Uninit

\* ---------------------------------------------------------------------------
\* Capacity of a Slide built by from_iter and then cycled through pop and
\* push, as tests::shrink does.
MaxFill == 4
MaxCycled == 9

\* impl FromIterator for Slide
from_iter(source, hint) == slide_extend(EmptySlide, source, hint)

InitShrink ==
    /\ N = 1
    /\ config = DefaultConfig
    /\ input = <<>>
    /\ iter = <<>>
    /\ match_window = <<>>
    /\ raw_len = 0
    /\ back_ref = NoBackRef
    /\ windows = <<>>
    /\ search_buffer = with_hasher
    /\ items = <<>>
    /\ pc = "top"
    /\ buffer = <<>>
    /\ decoded = <<>>
    /\ consumed = 0
    /\ dpc = "run"
    /\ probe = <<>>
    /\ found = None
    /\ debug_assertions = TRUE
    /\ \E k \in 0..MaxFill : \E hint \in {0, k} :
           /\ slide_state = from_iter([i \in 1..k |-> i], hint)
           /\ fresh = k
           /\ released = Stored(<<>>, k)
    /\ call = NoCall
    /\ codec = NoCodec

\* Slide::push, recording the capacity and the tail capacity it found
ShrinkPush ==
    /\ fresh < MaxCycled
    /\ slide_state' = slide_push(slide_state, fresh + 1)
    /\ fresh' = fresh + 1
    /\ released' = Stored(released, 1)
    /\ call' = Call("push", capacity(slide_state), tail_capacity(slide_state), <<>>, FALSE)
    /\ SlideFrame

NextShrink ==
    \/ ShrinkPush
    \/ SlidePop
    \/ SlideClear

SpecShrink == InitShrink /\ [][NextShrink]_vars

\* a capacity the code can allocate: 0, or a power of two
IsCapacity(c) == c = 0 \/ next_power_of_two(c) = c

\* C29: when push finds no tail capacity, the capacity becomes exactly
\* next_power_of_two(k + k/2) with k = len + 1, and the live elements are
\* moved to start = 0 in order, followed by the pushed element; the new
\* capacity may be smaller than, equal to or greater than the old one. A push
\* that finds tail capacity leaves the capacity alone. The capacity is always
\* 0 or a power of two, and at least len.
C29_PushCapacity ==
    [][ /\ (call'.op = "push" /\ tail_capacity(slide_state) = 0) =>
              LET k == slide_len(slide_state) + 1
              IN  /\ capacity(slide_state') = next_power_of_two(k + k \div 2)
                  /\ slide_state'.start = 0
                  /\ deref(slide_state') = Append(deref(slide_state), fresh')
        /\ (call'.op = "push" /\ tail_capacity(slide_state) > 0) =>
              /\ capacity(slide_state') = capacity(slide_state)
              /\ slide_state'.start = slide_state.start
              /\ deref(slide_state') = Append(deref(slide_state), fresh')
        /\ IsCapacity(capacity(slide_state))
        /\ IsCapacity(capacity(slide_state'))
        /\ capacity(slide_state) >= slide_len(slide_state)
        /\ capacity(slide_state') >= slide_len(slide_state') ]_vars

\* a push without tail capacity has shrunk the capacity (here 8 to 4)
C29_Witness ==
    /\ call.op = "push"
    /\ call.b = 0
    /\ capacity(slide_state) < call.a
    /\ slide_len(slide_state) = 2

\* a push without tail capacity has compacted the elements in place, the
\* capacity staying as it was
C29_WitnessInPlace ==
    /\ call.op = "push"
    /\ call.b = 0
    /\ call.a > 0
    /\ capacity(slide_state) = call.a

\* a push without tail capacity has grown the capacity
C29_WitnessGrown ==
    /\ call.op = "push"
    /\ call.b = 0
    /\ capacity(slide_state) > call.a

\* ---------------------------------------------------------------------------
\* the input position the scan stands at: everything before it is in an item
\* already returned or in the literal run being accumulated
ScanPos == TotalLen(items) + raw_len

\* C26: greedy parse. The lookahead the scan works on starts at the current
\* input position; if find_longest_match on it returns a range of length >=
\* match_lengths.start, the scan stops there and that range becomes the
\* pending back reference, together with search_buffer.end() of that moment;
\* otherwise the symbol at the position joins the literal run and is pushed
\* alone into the search buffer, and the scan moves one position on. The Ref
\* returned carries back = end - range.start and len = range.len() of the
\* pending back reference, after the Raw of the positions scanned before it.
C26_GreedyParse ==
    [][ /\ (pc = "scan" /\ data # <<>> /\ pc' # "panic"
                /\ FactorizerVars' # FactorizerVars) =>
              LET m == find_longest_match(search_buffer, data)
              IN  /\ data = Slice(input, ScanPos, ScanPos + Len(data))
                  /\ IF m.some /\ RangeLen(m) >= config.match_lengths.start
                     THEN /\ back_ref' = [some |-> TRUE, index |-> m,
                                          end |-> end(search_buffer)]
                          /\ raw_len' = raw_len
                          /\ pc' = "top"
                     ELSE /\ back_ref' = back_ref
                          /\ raw_len' = raw_len + 1
                          /\ search_buffer' = push_step(search_buffer, Head(data),
                                                        config.max_buffer_len)
                          /\ pc' = "scan"
        /\ items' # items =>
              LET item == items'[Len(items')]
              IN  /\ items' = Append(items, item)
                  /\ item.kind = "Ref" =>
                         /\ raw_len = 0
                         /\ back_ref.some
                         /\ item.back = back_ref.end - back_ref.index.start
                         /\ item.len = RangeLen(back_ref.index)
                  /\ item.kind = "Raw" =>
                         /\ raw_len > 0
                         /\ item.raw = Slice(input, TotalLen(items), TotalLen(items) + raw_len)
      ]_vars

\* a Ref of two symbols or more was returned right after a Raw, under a
\* configuration that rejects shorter matches
C26_Witness ==
    \E i \in 1..(Len(items) - 1) :
        /\ items[i].kind = "Raw"
        /\ items[i + 1].kind = "Ref"
        /\ items[i + 1].len >= 2
        /\ config.match_lengths.start >= 2

\* ---------------------------------------------------------------------------
\* C27: the lookahead window match_window never holds more than
\* match_lengths.end - 1 symbols at any point of to_items, including while a
\* literal run is being accumulated (stated under a valid configuration).
C27_LookaheadBounded ==
    ValidConfig => Len(match_window) <= config.match_lengths.end - 1

\* the part that holds: the symbols past the literal run, which are the
\* lookahead the scan works on, never number more than match_lengths.end - 1,
\* and the whole window never more than that plus the literal run
C27_ScannedPartBounded ==
    ValidConfig =>
        /\ Len(data) <= config.match_lengths.end - 1
        /\ Len(match_window) <= raw_len + config.match_lengths.end - 1

\* ---------------------------------------------------------------------------
\* C30: tie-break of find_longest_match. When several live window positions
\* give a match of the same maximal length, the range returned is the one
\* with the greatest absolute start: no position after the returned one
\* matches the probe as long.
C30_MostRecentOfLongest ==
    (found.some /\ found.end - found.start = BestPrefix) =>
        \A rel \in 0..(len(search_buffer) - 1) :
            rel > found.start - start(search_buffer)
                => CommonPrefix(rel) < BestPrefix

\* the part that holds: among the positions the hash chain indexes and the
\* matches longer than N, the most recent of the longest is returned
C30_MostRecentBeyondN ==
    (found.some /\ found.end - found.start = BestPrefix /\ BestPrefix > N) =>
        \A rel \in 0..(len(search_buffer) - 1) :
            rel > found.start - start(search_buffer)
                => CommonPrefix(rel) < BestPrefix

\* ---------------------------------------------------------------------------
\* C31: in the item stream of to_items a Raw is never followed by another
\* Raw. A Raw is returned only as the first item or after a Ref, and when it
\* is returned either a back reference is pending, which is the next item, or
\* the input is exhausted and the lookahead is left empty, so the stream ends.
C31_RawNeverFollowedByRaw ==
    [][ /\ \A i \in 1..(Len(items') - 1) :
               items'[i].kind = "Raw" => items'[i + 1].kind = "Ref"
        /\ (items' # items /\ items'[Len(items')].kind = "Raw") =>
               /\ items = <<>> \/ items[Len(items)].kind = "Ref"
               /\ \/ back_ref.some
                  \/ iter = <<>> /\ match_window' = <<>>
      ]_vars

\* a Raw was followed by a Ref, and a later Raw by the end of the stream
C31_Witness ==
    /\ pc = "done"
    /\ Len(items) >= 3
    /\ items[Len(items)].kind = "Raw"
    /\ \E i \in 1..(Len(items) - 1) :
           items[i].kind = "Raw" /\ items[i + 1].kind = "Ref"

\* ---------------------------------------------------------------------------
\* number of Refs among the first k items
RefsIn(k) == Cardinality({i \in 1..k : items[i].kind = "Ref"})

\* C32: factorizer and reconstructor windows stay in step. Whenever
\* from_items comes to a Ref, its buffer holds exactly the symbols the
\* factorizer's search buffer held when the match was found, so back is at
\* most the buffer's length, and base = len(buffer) - back is the position
\* of the matched range's start within that window: it addresses the same
\* symbol.
C32_WindowsInStep ==
    [][ (/\ dpc = "run"
         /\ consumed < Len(items)
         /\ items[consumed + 1].kind = "Ref"
         /\ consumed' = consumed + 1 \/ dpc' = "panic") =>
            LET item == items[consumed + 1]
                w == windows[RefsIn(consumed + 1)]
                base == Len(buffer) - item.back
            IN  /\ RefsIn(consumed + 1) <= Len(windows)
                /\ buffer = w.values
                /\ item.back <= Len(buffer)
                /\ base = w.index.start - w.start
                /\ base < Len(buffer)
                /\ buffer[base + 1] = w.values[w.index.start - w.start + 1]
                /\ dpc' = "run"
      ]_vars

\* a Ref was replayed after both windows had dropped symbols at the front,
\* and it reached back to a symbol past the window's first
C32_Witness ==
    /\ consumed >= 1
    /\ items[consumed].kind = "Ref"
    /\ dpc = "run"
    /\ windows[RefsIn(consumed)].start > 0
    /\ windows[RefsIn(consumed)].index.start > windows[RefsIn(consumed)].start

\* ---------------------------------------------------------------------------
\* C33: the chain walk of find_longest_match terminates. Every pointer stored
\* in offsets at window position i (an absolute index plus one, 0 being the
\* sentinel) denotes an absolute index strictly smaller than that of i, so
\* the positions the walk visits are strictly decreasing, all are positions
\* of offsets, and the walk makes at most offsets.len() steps.
C33_ChainWalkTerminates ==
    /\ \A i \in 0..(Len(search_buffer.offsets) - 1) :
           search_buffer.offsets[i + 1] < i + search_buffer.offset
    /\ (probe # <<>> /\ ~search_buffer.panicked) =>
           LET v == visits(search_buffer, probe)
           IN  /\ Len(v) <= Len(search_buffer.offsets)
               /\ \A k \in 1..Len(v) : v[k] >= 0 /\ v[k] < Len(search_buffer.offsets)
               /\ \A k \in 1..(Len(v) - 1) : v[k + 1] < v[k]

\* a walk of two steps or more over a window that has retired symbols, ended
\* by a stale pointer that is not the sentinel
C33_Witness ==
    /\ probe # <<>>
    /\ ~search_buffer.panicked
    /\ start(search_buffer) > 0
    /\ LET v == visits(search_buffer, probe)
       IN  /\ Len(v) >= 2
           /\ search_buffer.offsets[v[Len(v)] + 1] > 0
           /\ search_buffer.offsets[v[Len(v)] + 1] < search_buffer.offset

====
